---- MODULE Spec2Model ----
(***************************************************************************)
(* Verification model of libmultilabel/linear/tree.py: the label-tree      *)
(* builder, the tree cache keyed by a fingerprint of the data and of the   *)
(* random generator's key, the per-node streaming append into the mapped   *)
(* arrays, the flattener's offset table and the beam search predictor.     *)
(*                                                                         *)
(* SpecBuild one call of _build_tree on all the labels.                    *)
(* Spec      one process calling train_tree repeatedly on the same data.   *)
(* SpecNodes the traversal of one train_tree call, node by node.           *)
(* SpecBeam  one run of TreeModel._beam_search on a flattened tree.        *)
(***************************************************************************)
EXTENDS Integers, Sequences, FiniteSets, TLC

VARIABLES
    inp,          \* arguments of train_tree: the shapes of y and x, options, K, dmax
    rng,          \* np.random global state: key block (seed, gen) and position in it
    cache,        \* tree_cache/: fingerprint -> pickled tree or a partial file
    pc,           \* position of the process inside train_tree
    root,         \* local root of the running train_tree call / TreeModel.root
    num_nodes,    \* local num_nodes of train_tree
    visited,      \* number of nodes root.dfs(visit) has trained so far
    mmap_info,    \* the dict mmap_info: cursors and the capacities of the arrays
    weights,      \* shapes of node.model.weights of the trained nodes, in dfs order
    weight_map,   \* TreeModel.weight_map
    calls,        \* history of the train_tree calls of this process
    reseeded,     \* np.random.seed was called since the last train_tree call
    pid,          \* number of processes started so far
    instance_preds, \* _beam_search: cached decision values of one instance
    beam_width,   \* _beam_search: argument
    cur_level,    \* _beam_search: local cur_level
    next_level,   \* _beam_search: local next_level as it stood when it was sorted
    levels,       \* _beam_search: number of iterations of the while loop that expanded
    scores        \* _beam_search: the returned vector, once computed

vars == << inp, rng, cache, pc, root, num_nodes, visited, mmap_info, weights,
           weight_map, calls, reseeded, pid, instance_preds, beam_width, cur_level, next_level,
           levels, scores >>

trainVars == << inp, rng, cache, pc, root, num_nodes, visited, mmap_info, weights,
                weight_map, calls, reseeded, pid >>
beamVars == << instance_preds, beam_width, cur_level, next_level, levels, scores >>

-----------------------------------------------------------------------------
(* Bounds of the model.                                                    *)
MaxLabels == 4      \* y.shape[1] ranges over 1..MaxLabels
MaxK == 2           \* K ranges over 1..MaxK
MaxDepth == 2       \* dmax ranges over 0..MaxDepth
CacheMaxLabels == 2 \* y.shape[1] ranges over 1..CacheMaxLabels in Spec
CacheMaxDepth == 1  \* dmax ranges over 0..CacheMaxDepth in Spec
NodesMaxLabels == 3 \* y.shape[1] ranges over 1..NodesMaxLabels in SpecNodes
NodesMaxDepth == 1  \* dmax ranges over 0..NodesMaxDepth in SpecNodes
BigFeatures == 2048 \* x.shape[1] is 1 or BigFeatures
MaxSeed == 1        \* np.random.seed(s) for s in 1..MaxSeed
MaxCalls == 2       \* train_tree calls per process
KeyBlockLen == 2    \* draws served by one key block of the generator (624 in numpy)
MaxEntries == 2     \* files tree_cache/ may hold
MaxBeam == 3        \* beam_width ranges over 0..MaxBeam

\* No tree: the value of root before a call returned and after a call raised.
NoTree == [none |-> TRUE]
Min(a, b) == IF a <= b THEN a ELSE b
Max(a, b) == IF a >= b THEN a ELSE b

RECURSIVE SumSeq(_)
SumSeq(s) == IF s = <<>> THEN 0 ELSE Head(s) + SumSeq(Tail(s))

RECURSIVE Concat(_)
Concat(ss) == IF ss = <<>> THEN <<>> ELSE Head(ss) \o Concat(Tail(ss))

Range(s) == { s[i] : i \in DOMAIN s }

-----------------------------------------------------------------------------
(* class Node                                                              *)

Node(label_map, children) == [label_map |-> label_map, children |-> children]

isLeaf(node) == Len(node.children) = 0

\* Node.dfs: the nodes in the order visit is called on them.
RECURSIVE dfs(_)
dfs(node) == <<node>> \o Concat([i \in 1..Len(node.children) |-> dfs(node.children[i])])

-----------------------------------------------------------------------------
(* _build_tree                                                             *)

\* label_map[metalabels == i]
Masked(label_map, metalabels, i) ==
    SelectSeq([j \in 1..Len(label_map) |-> <<label_map[j], metalabels[j]>>],
              LAMBDA p : p[2] = i)

\* Mutant: the mask is metalabels <= i, so a child also gets the labels of the
\* clusters before its own.
child_map_through(label_map, metalabels, i) ==
    LET m == SelectSeq([j \in 1..Len(label_map) |-> <<label_map[j], metalabels[j]>>],
                       LAMBDA p : p[2] <= i)
    IN [j \in 1..Len(m) |-> m[j][1]]

child_map(label_map, metalabels, i) ==
    [j \in 1..Len(Masked(label_map, metalabels, i)) |-> Masked(label_map, metalabels, i)[j][1]]

\* KMeans(K, ...).fit(label_representation).labels_: one cluster id in 0..K-1 per row.
KMeansLabels(n, K) == [1..n -> 0..(K - 1)]

RECURSIVE _build_tree(_, _, _, _)
RECURSIVE build_children(_, _, _, _, _, _)

\* The children list after the iterations i..K-1 of the loop of _build_tree.
build_children(label_map, metalabels, i, d, K, dmax) ==
    IF i >= K THEN { <<>> }
    ELSE { <<child>> \o rest :
             child \in _build_tree(child_map(label_map, metalabels, i), d + 1, K, dmax),
             rest \in build_children(label_map, metalabels, i + 1, d, K, dmax) }

\* The trees _build_tree can return, one per outcome of the clusterings.
_build_tree(label_map, d, K, dmax) ==
    IF d >= dmax \/ Len(label_map) <= K
    THEN { Node(label_map, <<>>) }
    ELSE UNION { { Node(label_map, children) :
                     children \in build_children(label_map, metalabels, 0, d, K, dmax) } :
                 metalabels \in KMeansLabels(Len(label_map), K) }

\* np.arange(y.shape[1])
arange(n) == [j \in 1..n |-> j - 1]

\* Number of KMeans fits (and of np.random.randint draws) that built the tree.
RECURSIVE NumInternal(_)
NumInternal(node) ==
    IF isLeaf(node) THEN 0
    ELSE 1 + SumSeq([i \in 1..Len(node.children) |-> NumInternal(node.children[i])])

-----------------------------------------------------------------------------
(* np.random: the Mersenne Twister key block and the position in it.       *)
(* A seed is a positive number when given to np.random.seed and -pid when  *)
(* the process seeded itself from the operating system.                    *)

\* State right after seeding: the key block is exhausted, the first draw refills it.
seeded(s) == [seed |-> s, gen |-> 0, pos |-> KeyBlockLen]

\* np.random.get_state()[1]
get_state_1(r) == <<r.seed, r.gen>>

\* np.random.randint(2**31 - 1): the state after one draw.
randint(r) ==
    IF r.pos >= KeyBlockLen
    THEN [r EXCEPT !.gen = r.gen + 1, !.pos = 1]
    ELSE [r EXCEPT !.pos = r.pos + 1]

RECURSIVE draws(_, _)
draws(r, n) == IF n = 0 THEN r ELSE draws(randint(r), n - 1)

-----------------------------------------------------------------------------
(* train_tree: fingerprint and tree cache                                  *)

Partial == [partial |-> TRUE]

\* tree_fingerprint: the shapes of y and x and the generator's key block. The
\* instance count, the nonzero counts and the first and last rows of x are the
\* same in every call of a behaviour and are left out.
\* Mutant: the fingerprint takes the whole generator state, position included.
tree_fingerprint_with_pos(i, r) == <<i.num_labels, i.num_features, <<r.seed, r.gen, r.pos>>>>

tree_fingerprint(i, r) == <<i.num_labels, i.num_features, get_state_1(r)>>

is_file(fp) == fp \in DOMAIN cache

dump(fp, entry) == [f \in DOMAIN cache \cup {fp} |-> IF f = fp THEN entry ELSE cache[f]]

\* Number of target columns the node is trained on: its labels or its children.
num_columns(node) == IF isLeaf(node) THEN Len(node.label_map) ELSE Len(node.children)

\* _flatten_model, visit: node.index = 0, 1, 2, ... in dfs order.
RECURSIVE with_index(_, _)
RECURSIVE size(_)
size(node) == 1 + SumSeq([i \in 1..Len(node.children) |-> size(node.children[i])])

with_index(node, index) ==
    [label_map |-> node.label_map,
     index |-> index,
     children |-> [i \in 1..Len(node.children) |->
                     with_index(node.children[i],
                                index + 1 + SumSeq([j \in 1..(i - 1) |-> size(node.children[j])]))]]

\* np.cumsum([0] + [w.shape[1] for w in weights])
cumsum0(cols) == [i \in 1..(Len(cols) + 1) |-> SumSeq(SubSeq(cols, 1, i - 1))]

CallRecord(key, hit, partial, kmeans, result, tree) ==
    [key |-> key, fp |-> tree_fingerprint(inp, rng), hit |-> hit, partial |-> partial, kmeans |-> kmeans,
     result |-> result, root |-> tree, reseeded |-> reseeded]

\* train_tree, cache hit: the pickled tree is loaded, trained and flattened.
train_tree_hit ==
    /\ pc = "idle" /\ Len(calls) < MaxCalls
    /\ LET fp == tree_fingerprint(inp, rng) IN
       /\ is_file(fp) /\ cache[fp] # Partial
       /\ root' = with_index(cache[fp], 0)
       /\ weight_map' = cumsum0([i \in 1..size(cache[fp]) |-> num_columns(dfs(cache[fp])[i])])
       /\ calls' = Append(calls, CallRecord(get_state_1(rng), TRUE, FALSE, 0, "ok", cache[fp]))
    /\ reseeded' = FALSE
    /\ UNCHANGED << inp, rng, cache, pc, num_nodes, visited, mmap_info, weights, pid >>
    /\ UNCHANGED beamVars

\* train_tree, the cache file exists and holds a partial pickle: pickle.load raises.
train_tree_partial ==
    /\ pc = "idle" /\ Len(calls) < MaxCalls
    /\ LET fp == tree_fingerprint(inp, rng) IN
       /\ is_file(fp) /\ cache[fp] = Partial
       /\ calls' = Append(calls, CallRecord(get_state_1(rng), TRUE, TRUE, 0, "raised", NoTree))
    /\ root' = NoTree /\ weight_map' = <<>>
    /\ reseeded' = FALSE
    /\ UNCHANGED << inp, rng, cache, pc, num_nodes, visited, mmap_info, weights, pid >>
    /\ UNCHANGED beamVars

\* train_tree, cache miss: the tree is built, pickled, trained and flattened.
train_tree_miss ==
    /\ pc = "idle" /\ Len(calls) < MaxCalls
    /\ Cardinality(DOMAIN cache) < MaxEntries
    /\ LET fp == tree_fingerprint(inp, rng) IN
       /\ ~is_file(fp)
       /\ \E tree \in _build_tree(arange(inp.num_labels), 0, inp.K, inp.dmax) :
            /\ rng' = draws(rng, NumInternal(tree))
            /\ cache' = dump(fp, tree)
            /\ root' = with_index(tree, 0)
            /\ weight_map' = cumsum0([i \in 1..size(tree) |-> num_columns(dfs(tree)[i])])
            /\ calls' = Append(calls, CallRecord(get_state_1(rng), FALSE, FALSE,
                                                 NumInternal(tree), "ok", tree))
    /\ reseeded' = FALSE
    /\ UNCHANGED << inp, pc, num_nodes, visited, mmap_info, weights, pid >>
    /\ UNCHANGED beamVars

\* The process dies between open(cache_path, "wb") and the end of pickle.dump:
\* the file is left partial and a new process starts.
killed_in_dump ==
    /\ pc = "idle" /\ Len(calls) < MaxCalls
    /\ Cardinality(DOMAIN cache) < MaxEntries
    /\ LET fp == tree_fingerprint(inp, rng) IN
       /\ ~is_file(fp)
       /\ cache' = dump(fp, Partial)
    /\ pid' = pid + 1
    /\ rng' = seeded(0 - pid')
    /\ calls' = <<>> /\ reseeded' = FALSE /\ root' = NoTree /\ weight_map' = <<>>
    /\ UNCHANGED << inp, pc, num_nodes, visited, mmap_info, weights >>
    /\ UNCHANGED beamVars

\* The caller runs np.random.seed(s) between two calls.
np_random_seed ==
    /\ pc = "idle" /\ Len(calls) < MaxCalls
    /\ \E s \in 1..MaxSeed : rng' = seeded(s)
    /\ reseeded' = TRUE
    /\ UNCHANGED << inp, cache, pc, root, num_nodes, visited, mmap_info, weights,
                    weight_map, calls, pid >>
    /\ UNCHANGED beamVars

-----------------------------------------------------------------------------
(* train_tree, lines 163-207: the traversal that trains the nodes and       *)
(* streams their weights into the mapped arrays.                            *)

chunk_size == 4096

\* int.bit_length()
RECURSIVE bit_length(_)
bit_length(n) == IF n = 0 THEN 0 ELSE 1 + bit_length(n \div 2)

RECURSIVE pow2(_)
pow2(e) == IF e = 0 THEN 1 ELSE 2 * pow2(e - 1)

\* a << b
shl(a, b) == a * pow2(b)

\* Mutant: the shift starts from 1, giving the smallest power of two that holds
\* the block.
new_buffer_size_shift1(num_data, nnz) == shl(1, bit_length(num_data + nnz - 1))

\* Mutant: the capacity is computed from the block alone, without the nonzeros
\* already written.
new_buffer_size_block_only(num_data, nnz) == shl(2, bit_length(nnz - 1))

\* The capacity _as_mmap resizes data and indices to.
new_buffer_size(num_data, nnz) == shl(2, bit_length(num_data + nnz - 1))

\* indptr = fileio.Array(..., shape=num_nodes * (x.shape[1] + has_bias + 1))
indptr_shape(n, i) == n * (i.num_features + (IF i.has_bias THEN 1 ELSE 0) + 1)

\* linear.train_1vsrest: the weight blocks the trainer may return for a target of
\* target_cols columns: one row per feature plus the bias row, one column per
\* target column, and a number of stored nonzeros.
train_1vsrest(target_cols, i) ==
    LET rows == i.num_features + (IF i.has_bias THEN 1 ELSE 0) IN
    { [shape |-> <<rows, target_cols>>, nnz |-> z] :
        z \in {0, Min(target_cols, 1), target_cols, rows, rows * target_cols}
              \cap 0..(rows * target_cols) }

\* _as_mmap: mmap_info after the block arr was appended.
_as_mmap(arr, info) ==
    LET need == info.num_data + arr.nnz
        grow == info.data < need
    IN [num_data |-> info.num_data + arr.nnz,
        num_indptr |-> info.num_indptr + arr.shape[1] + 1,
        data |-> IF grow THEN new_buffer_size(info.num_data, arr.nnz) ELSE info.data,
        indices |-> IF grow THEN new_buffer_size(info.num_data, arr.nnz) ELSE info.indices,
        indptr |-> info.indptr]

\* State of train_tree at line 200: the tree is there, the arrays are allocated.
allocated(n, i) ==
    [num_data |-> 0, num_indptr |-> 0, data |-> chunk_size, indices |-> chunk_size,
     indptr |-> indptr_shape(n, i)]

\* visit(node) of train_tree: _train_node on the next node in dfs order.
visit ==
    /\ pc = "visit" /\ visited < num_nodes
    /\ \E arr \in train_1vsrest(num_columns(dfs(root)[visited + 1]), inp) :
         /\ mmap_info' = _as_mmap(arr, mmap_info)
         /\ weights' = Append(weights, [shape |-> arr.shape])
    /\ visited' = visited + 1
    /\ UNCHANGED << inp, rng, cache, pc, root, num_nodes, weight_map, calls, reseeded, pid >>
    /\ UNCHANGED beamVars

\* _hstack_info: the shape (m, n) of the concatenation of the blocks.
_hstack_info(blocks) ==
    [m |-> blocks[1].shape[1],
     n |-> SumSeq([b \in 1..Len(blocks) |-> blocks[b].shape[2]])]

\* _flatten_model: the node indices and the offset table.
_flatten_model ==
    /\ pc = "visit" /\ visited = num_nodes
    /\ root' = with_index(root, 0)
    /\ weight_map' = cumsum0([b \in 1..Len(weights) |-> weights[b].shape[2]])
    /\ pc' = "done"
    /\ UNCHANGED << inp, rng, cache, num_nodes, visited, mmap_info, weights, calls,
                    reseeded, pid >>
    /\ UNCHANGED beamVars

FeatureCounts == {1, BigFeatures}

Inputs == [num_labels : 1..MaxLabels, num_features : FeatureCounts,
           has_bias : BOOLEAN, K : 1..MaxK, dmax : 0..MaxDepth]

\* Inputs with a feature matrix of one column and no bias option: neither the
\* tree cache nor the beam search depends on the features beyond their shape.
SmallInputs == { i \in Inputs : i.num_features = 1 /\ ~i.has_bias }

\* Inputs of the process that calls train_tree repeatedly: trees of few nodes,
\* since every entry of the cache holds one.
CacheInputs == { i \in SmallInputs : i.num_labels <= CacheMaxLabels /\ i.dmax <= CacheMaxDepth }

\* Inputs of the traversal followed node by node: trees of few nodes, every
\* option and both feature counts.
NodesInputs == { i \in Inputs : i.num_labels <= NodesMaxLabels /\ i.dmax <= NodesMaxDepth }

BeamIdle == /\ instance_preds = <<>> /\ beam_width = 0 /\ cur_level = <<>>
            /\ next_level = <<>> /\ levels = 0 /\ scores = <<>>

Init == /\ inp \in CacheInputs
        /\ pid = 1
        /\ \E p \in 0..KeyBlockLen : rng = [seeded(0 - pid) EXCEPT !.pos = p]
        /\ cache = << >>
        /\ pc = "idle" /\ root = NoTree /\ num_nodes = 0 /\ visited = 0
        /\ mmap_info = [num_data |-> 0, num_indptr |-> 0, data |-> 0, indices |-> 0, indptr |-> 0] /\ weights = <<>> /\ weight_map = <<>>
        /\ calls = <<>> /\ reseeded = FALSE
        /\ BeamIdle

Next == \/ train_tree_hit
        \/ train_tree_partial
        \/ train_tree_miss
        \/ killed_in_dump
        \/ np_random_seed

Spec == Init /\ [][Next]_vars

\* train_tree, line 158: the call of _build_tree on all the labels.
build ==
    /\ pc = "idle"
    /\ root' \in _build_tree(arange(inp.num_labels), 0, inp.K, inp.dmax)
    /\ pc' = "built"
    /\ UNCHANGED << inp, rng, cache, num_nodes, visited, mmap_info, weights, weight_map,
                    calls, reseeded, pid >>
    /\ UNCHANGED beamVars

InitBuild ==
    /\ inp \in SmallInputs
    /\ pc = "idle" /\ root = NoTree /\ num_nodes = 0 /\ visited = 0
    /\ mmap_info = [num_data |-> 0, num_indptr |-> 0, data |-> 0, indices |-> 0, indptr |-> 0]
    /\ weights = <<>> /\ weight_map = <<>>
    /\ pid = 1 /\ rng = seeded(1) /\ cache = << >> /\ calls = <<>> /\ reseeded = FALSE
    /\ BeamIdle

NextBuild == build

SpecBuild == InitBuild /\ [][NextBuild]_vars

\* One train_tree call from line 163 on, node by node.
InitNodes ==
    /\ inp \in NodesInputs
    /\ root \in _build_tree(arange(inp.num_labels), 0, inp.K, inp.dmax)
    /\ num_nodes = size(root)
    /\ mmap_info = allocated(num_nodes, inp)
    /\ pc = "visit" /\ visited = 0 /\ weights = <<>> /\ weight_map = <<>>
    /\ pid = 1 /\ rng = seeded(1) /\ cache = << >> /\ calls = <<>> /\ reseeded = FALSE
    /\ BeamIdle

NextNodes == visit \/ _flatten_model

SpecNodes == InitNodes /\ [][NextNodes]_vars

-----------------------------------------------------------------------------
(* Properties of the builder (SpecBuild) and of the tree cache (Spec)       *)

Nodes(tree) == Range(dfs(tree))

RECURSIVE Height(_)
Height(node) ==
    IF isLeaf(node) THEN 0
    ELSE 1 + CHOOSE h \in { Height(node.children[i]) : i \in 1..Len(node.children) } :
               \A i \in 1..Len(node.children) : Height(node.children[i]) <= h

\* C1: no node of a tree the builder returned has an empty label_map: a cluster
\* without rows gives no child.
C1_NoEmptyNode ==
    pc = "built" => \A n \in Nodes(root) : n.label_map # <<>>

\* C2: in every tree the builder returned the root covers the labels
\* 0..num_labels-1 and, at every internal node, the label_maps of the children
\* are pairwise disjoint and their union is the label_map of the node.
C2_ChildrenPartitionParent ==
    pc = "built" =>
        /\ root.label_map = arange(inp.num_labels)
        /\ \A n \in Nodes(root) :
             ~isLeaf(n) =>
               /\ \A i, j \in 1..Len(n.children) :
                    i # j => Range(n.children[i].label_map)
                               \cap Range(n.children[j].label_map) = {}
               /\ UNION { Range(n.children[i].label_map) : i \in 1..Len(n.children) }
                    = Range(n.label_map)

\* A built tree of two levels: the root and one of its children were both split
\* into clusters that all have labels.
C2_Witness ==
    /\ pc = "built"
    /\ Height(root) = 2
    /\ \A n \in Nodes(root) : n.label_map # <<>>

\* C6 as stated: a call that follows a call that returned, with no
\* np.random.seed in between, finds the tree in the cache, runs no clustering and
\* has the tree of the call before.
C6_SecondCallHitsWithoutReseed ==
    \A c \in 2..Len(calls) :
        (calls[c - 1].result = "ok" /\ ~calls[c].reseeded)
        => /\ calls[c].result = "ok"
           /\ calls[c].hit /\ calls[c].kmeans = 0
           /\ calls[c].fp = calls[c - 1].fp
           /\ calls[c].root = calls[c - 1].root

\* C6 amended: a call that follows a call that returned and starts with the same
\* key block of the generator, np.random.get_state()[1], as that call started
\* with, finds the tree in the cache, runs no clustering and has the tree of the
\* call before.
C6_SecondCallHitsOnSameKey ==
    \A c \in 2..Len(calls) :
        (calls[c - 1].result = "ok" /\ calls[c].key = calls[c - 1].key)
        => /\ calls[c].result = "ok"
           /\ calls[c].hit /\ calls[c].kmeans = 0
           /\ calls[c].fp = calls[c - 1].fp
           /\ calls[c].root = calls[c - 1].root

\* Two calls without np.random.seed in between, the first of which built a tree
\* and drew clustering seeds without exhausting the key block.
C6_Witness ==
    \E c \in 2..Len(calls) :
        /\ calls[c - 1].result = "ok" /\ ~calls[c - 1].hit /\ calls[c - 1].kmeans > 0
        /\ ~calls[c].reseeded /\ calls[c].key = calls[c - 1].key
        /\ calls[c].hit

\* C7: a call that finds a partial entry under its fingerprint returns a model
\* and leaves a complete tree under that fingerprint.
C7_PartialEntryIsRebuilt ==
    \A c \in 1..Len(calls) :
        calls[c].partial
        => /\ calls[c].result = "ok"
           /\ calls[c].fp \in DOMAIN cache
           /\ cache[calls[c].fp] # Partial

-----------------------------------------------------------------------------
(* TreeModel._beam_search                                                  *)

\* Decision values of the model: below the margin and beyond it.
PredValues == {0, 2}

Pair(node, score) == [node |-> node, score |-> score]

\* Mutant: the test of the lambda lost its "not" and counts the leaves.
num_internal_counts_leaves(level) ==
    Cardinality({ i \in 1..Len(level) : isLeaf(level[i].node) })

\* sum(map(lambda pair: not pair[0].isLeaf(), cur_level))
num_internal(level) == Cardinality({ i \in 1..Len(level) : ~isLeaf(level[i].node) })

\* instance_preds[self.weight_map[node.index] : self.weight_map[node.index + 1]]
pred_slice(node) ==
    SubSeq(instance_preds, weight_map[node.index + 1] + 1, weight_map[node.index + 2])

\* np.maximum(0, 1 - pred) ** 2
squared_hinge(pred) == Max(0, 1 - pred) * Max(0, 1 - pred)

\* zip(node.children, children_score.tolist())
zip_children(node, score) ==
    [i \in 1..Min(Len(node.children), Len(pred_slice(node))) |->
        Pair(node.children[i], score - squared_hinge(pred_slice(node)[i]))]

\* The for loop of lines 101-108: next_level once every pair of the level was handled.
expand(level) ==
    Concat([i \in 1..Len(level) |->
              IF isLeaf(level[i].node)
              THEN << level[i] >>
              ELSE zip_children(level[i].node, level[i].score)])

\* list.sort is stable: a pair goes behind every pair whose key is not larger.
RECURSIVE insert_sorted(_, _)
RECURSIVE insert_sorted_before_ties(_, _)

\* Mutant: a pair goes in front of the pairs of equal key, which reverses ties.
insert_sorted_before_ties(s, p) ==
    IF s = <<>> THEN << p >>
    ELSE IF (0 - p.score) <= (0 - Head(s).score)
         THEN << p >> \o s
         ELSE << Head(s) >> \o insert_sorted_before_ties(Tail(s), p)

insert_sorted(s, p) ==
    IF s = <<>> THEN << p >>
    ELSE IF (0 - p.score) < (0 - Head(s).score)
         THEN << p >> \o s
         ELSE << Head(s) >> \o insert_sorted(Tail(s), p)

\* sorted(next_level, key=lambda pair: -pair[1])
RECURSIVE sorted(_)
sorted(s) ==
    IF s = <<>> THEN <<>>
    ELSE insert_sorted(sorted(SubSeq(s, 1, Len(s) - 1)), s[Len(s)])

\* Mutant: the slice stops one pair early.
take_one_less(s, n) == SubSeq(s, 1, Min(n - 1, Len(s)))

\* s[:n] for n >= 0
take(s, n) == SubSeq(s, 1, Min(n, Len(s)))

\* One iteration of the while loop that does not break.
beam_level ==
    /\ pc = "beam" /\ num_internal(cur_level) # 0
    /\ next_level' = expand(cur_level)
    /\ cur_level' = take(sorted(expand(cur_level)), beam_width)
    /\ levels' = levels + 1
    /\ UNCHANGED << instance_preds, beam_width, scores >>
    /\ UNCHANGED trainVars

\* np.exp(v), kept symbolic: the exponent identifies the value.
exp(v) == [exp |-> v]
\* -np.inf
neg_inf == [neg_inf |-> TRUE]

\* scores after the pairs 1..n of cur_level were written (lines 113-118).
RECURSIVE write_scores(_, _)
write_scores(level, n) ==
    IF n = 0 THEN [l \in 1..Len(root.label_map) |-> neg_inf]
    ELSE LET prev == write_scores(level, n - 1)
             node == level[n].node
             pred == pred_slice(node)
         IN [l \in 1..Len(root.label_map) |->
               IF \E j \in 1..Len(node.label_map) : node.label_map[j] = l - 1
               THEN LET j == CHOOSE j \in 1..Len(node.label_map) : node.label_map[j] = l - 1
                    IN exp(level[n].score - squared_hinge(pred[j]))
               ELSE prev[l]]

\* The iteration that breaks, and the rest of the function.
beam_return ==
    /\ pc = "beam" /\ num_internal(cur_level) = 0
    /\ scores' = write_scores(cur_level, Len(cur_level))
    /\ pc' = "returned"
    /\ UNCHANGED << instance_preds, beam_width, cur_level, next_level, levels >>
    /\ UNCHANGED << inp, rng, cache, root, num_nodes, visited, mmap_info, weights,
                    weight_map, calls, reseeded, pid >>


\* A trained and flattened TreeModel and one row of all_preds.
InitBeam ==
    /\ inp \in SmallInputs
    /\ \E tree \in _build_tree(arange(inp.num_labels), 0, inp.K, inp.dmax) :
         /\ root = with_index(tree, 0)
         /\ weight_map = cumsum0([i \in 1..size(tree) |-> num_columns(dfs(tree)[i])])
    /\ num_nodes = size(root)
    /\ instance_preds \in [1..weight_map[num_nodes + 1] -> PredValues]
    /\ beam_width \in 0..MaxBeam
    /\ cur_level = << Pair(root, 0) >>
    /\ next_level = <<>> /\ levels = 0 /\ scores = <<>>
    /\ pc = "beam" /\ visited = num_nodes /\ weights = <<>>
    /\ mmap_info = allocated(num_nodes, inp)
    /\ pid = 1 /\ rng = seeded(1) /\ cache = << >> /\ calls = <<>> /\ reseeded = FALSE

NextBeam == beam_level \/ beam_return

SpecBeam == InitBeam /\ [][NextBeam]_vars

-----------------------------------------------------------------------------
(* Properties of the beam search (SpecBeam)                                *)

NumLeaves(tree) == Cardinality({ n \in Nodes(tree) : isLeaf(n) })

\* beam_width is at least the number of children of every internal node.
CoversBranching == \A n \in Nodes(root) : Len(n.children) <= beam_width

\* Full-tree evaluation: the (label, value) pairs of the leaves below node, each
\* leaf reached with the sum of the increments on its path from the root.
RECURSIVE full_tree(_, _)
full_tree(node, score) ==
    IF isLeaf(node)
    THEN { << node.label_map[j], exp(score - squared_hinge(pred_slice(node)[j])) >> :
             j \in 1..Len(node.label_map) }
    ELSE UNION { full_tree(node.children[i],
                           score - squared_hinge(pred_slice(node)[i])) :
                 i \in 1..Len(node.children) }

exhaustive_scores ==
    [l \in 1..Len(root.label_map) |->
        IF \E e \in full_tree(root, 0) : e[1] = l - 1
        THEN (CHOOSE e \in full_tree(root, 0) : e[1] = l - 1)[2]
        ELSE neg_inf]

\* C3 as stated, on trees every node of which has labels: when beam_width is at
\* least the number of children of every internal node, the returned scores are
\* those of the full-tree evaluation.
C3_BranchingWidthIsExhaustive ==
    (/\ pc = "returned"
     /\ CoversBranching
     /\ \A n \in Nodes(root) : n.label_map # <<>>)
    => scores = exhaustive_scores

\* C3 amended: when beam_width is at least the number of leaves of the tree, the
\* returned scores are those of the full-tree evaluation and no label is left at
\* minus infinity.
C3_LeafCountWidthIsExhaustive ==
    (pc = "returned" /\ beam_width >= NumLeaves(root))
    => /\ scores = exhaustive_scores
       /\ \A l \in 1..Len(scores) : scores[l] # neg_inf

\* A search over a tree of two levels with three leaves, returned with a beam as
\* wide as the leaves are many.
C3_Witness ==
    /\ pc = "returned" /\ levels = 2
    /\ NumLeaves(root) = 3 /\ beam_width = 3
    /\ \E l \in 1..Len(scores) : scores[l] # exp(0)

\* C5: at every level the combined list holds the leaves of the beam unchanged
\* and the children of its internal nodes, each with its parent's score less the
\* squared hinge of its decision value; the new beam is the first beam_width pairs
\* of that list ordered by score descending, pairs of equal score in the order
\* they were emitted: it has at most beam_width pairs and no dropped pair comes
\* before a kept one in that order.
C5_BeamIsStableTopK ==
    [][ levels' = levels + 1 =>
        LET pos(p) == CHOOSE i \in 1..Len(next_level') : next_level'[i] = p
            before(p, q) == \/ p.score > q.score
                            \/ p.score = q.score /\ pos(p) < pos(q)
            kept == Range(cur_level')
            emitted == Range(next_level')
        IN /\ \A p \in Range(cur_level) :
                IF isLeaf(p.node) THEN p \in emitted
                ELSE \A i \in 1..Len(p.node.children) :
                       Pair(p.node.children[i],
                            p.score - squared_hinge(instance_preds[
                                weight_map[p.node.index + 1] + i])) \in emitted
           /\ Len(next_level') =
                SumSeq([i \in 1..Len(cur_level) |->
                          IF isLeaf(cur_level[i].node) THEN 1
                          ELSE Len(cur_level[i].node.children)])
           /\ \A i, j \in 1..Len(cur_level) :
                (i < j /\ isLeaf(cur_level[i].node) /\ isLeaf(cur_level[j].node))
                => pos(cur_level[i]) < pos(cur_level[j])
           /\ Len(cur_level') = Min(beam_width, Len(next_level'))
           /\ Len(cur_level') <= beam_width
           /\ kept \subseteq emitted
           /\ \A i, j \in 1..Len(cur_level') :
                i < j => before(cur_level'[i], cur_level'[j])
           /\ \A p \in kept : \A q \in emitted \ kept : before(p, q) ]_vars

\* A second level whose combined list holds a carried leaf and expanded children
\* and is cut between two pairs of equal score.
C5_Witness ==
    /\ levels = 2
    /\ 1 <= Len(cur_level) /\ Len(cur_level) < Len(next_level)
    /\ \E i \in 1..Len(next_level) : \E c \in 1..Len(root.children) :
         next_level[i].node = root.children[c]
    /\ \E i \in 1..Len(next_level) : \A c \in 1..Len(root.children) :
         next_level[i].node # root.children[c]
    /\ \E p \in Range(cur_level) : \E q \in Range(next_level) \ Range(cur_level) :
         p.score = q.score

\* C10: the loop expands at most Height(root) levels; an iteration expands only
\* a beam that holds an internal node and the loop stops only on a beam that
\* holds none, which is the case at the latest after Height(root) expansions;
\* so every pair of the final beam, which the scores are written from, is a leaf.
C10_TerminatesOnLeaves ==
    /\ [](/\ levels <= Height(root)
          /\ (pc = "beam" /\ levels = Height(root))
               => \A i \in 1..Len(cur_level) : isLeaf(cur_level[i].node)
          /\ pc = "returned" => \A i \in 1..Len(cur_level) : isLeaf(cur_level[i].node))
    /\ [][ /\ levels' = levels + 1
                => \E i \in 1..Len(cur_level) : ~isLeaf(cur_level[i].node)
           /\ pc' = "returned"
                => /\ \A i \in 1..Len(cur_level) : isLeaf(cur_level[i].node)
                   /\ cur_level' = cur_level /\ levels' = levels ]_vars

\* A search with beam_width 1 that went down both levels of a tree and returned.
C10_Witness ==
    /\ pc = "returned" /\ beam_width = 1
    /\ Height(root) = 2 /\ levels = 2
    /\ Len(cur_level) = 1

-----------------------------------------------------------------------------
(* Properties of the traversal and of the flattener (SpecNodes)            *)

\* The smallest power of two that is >= n, by doubling.
RECURSIVE pow2_at_least(_, _)
pow2_at_least(n, p) == IF p >= n THEN p ELSE pow2_at_least(n, 2 * p)

\* C4: after flattening, weight_map has num_nodes + 1 entries, starts at 0, ends
\* at the column count of the flattened matrix, is strictly increasing, and the
\* difference of two consecutive entries is the column count of the block of the
\* node with that index, indices being assigned 0, 1, 2, ... in dfs order.
C4_WeightMapStrict ==
    pc = "done" =>
        /\ Len(weight_map) = num_nodes + 1
        /\ weight_map[1] = 0
        /\ weight_map[num_nodes + 1] = _hstack_info(weights).n
        /\ \A i \in 1..num_nodes :
             /\ weight_map[i] < weight_map[i + 1]
             /\ dfs(root)[i].index = i - 1
             /\ weight_map[i + 1] - weight_map[i] = weights[i].shape[2]

\* C8 as stated: an append that finds the capacity of data and indices below the
\* nonzeros written so far plus the block's resizes both to the smallest power of
\* two that is not below that sum; otherwise the capacities stay.
C8_SmallestPowerOfTwo ==
    [][ IF mmap_info.data < mmap_info'.num_data
        THEN /\ mmap_info'.data = pow2_at_least(mmap_info'.num_data, 1)
             /\ mmap_info'.indices = pow2_at_least(mmap_info'.num_data, 1)
        ELSE /\ mmap_info'.data = mmap_info.data
             /\ mmap_info'.indices = mmap_info.indices ]_vars

\* C8 amended: the resize is to twice the smallest power of two that is not below
\* the nonzeros written so far plus the block's; otherwise the capacities stay.
C8_TwiceSmallestPowerOfTwo ==
    [][ IF mmap_info.data < mmap_info'.num_data
        THEN /\ mmap_info'.data = 2 * pow2_at_least(mmap_info'.num_data, 1)
             /\ mmap_info'.indices = 2 * pow2_at_least(mmap_info'.num_data, 1)
        ELSE /\ mmap_info'.data = mmap_info.data
             /\ mmap_info'.indices = mmap_info.indices ]_vars

\* A traversal whose second append resized for a sum that is itself a power of
\* two, 2 * chunk_size, and got twice that.
C8_Witness ==
    /\ pc = "visit" /\ visited = 2
    /\ mmap_info.num_data = 2 * chunk_size
    /\ mmap_info.data = 4 * chunk_size
    /\ mmap_info.indices = 4 * chunk_size

\* C9: every append lands inside the allocated arrays: the nonzero cursor stays
\* within the capacities of data and indices, those capacities never decrease,
\* and the row-pointer cursor stays within the row-pointer array, whose size is
\* the one it was created with, num_nodes * (num_features + has_bias + 1).
C9_WritesInsideCapacity ==
    [][ /\ mmap_info'.num_data <= mmap_info'.data
        /\ mmap_info'.num_data <= mmap_info'.indices
        /\ mmap_info'.data >= mmap_info.data
        /\ mmap_info'.indices >= mmap_info.indices
        /\ mmap_info'.num_indptr <= mmap_info'.indptr
        /\ mmap_info'.indptr = mmap_info.indptr
        /\ mmap_info'.indptr =
             num_nodes * (inp.num_features + (IF inp.has_bias THEN 1 ELSE 0) + 1) ]_vars

\* A finished traversal of several nodes that resized and used the whole
\* row-pointer array.
C9_Witness ==
    /\ pc = "done" /\ num_nodes >= 3
    /\ mmap_info.data > chunk_size
    /\ mmap_info.num_indptr = mmap_info.indptr
====
